---- MODULE Spec2Model ----
(***************************************************************************)
(* Model of the real-time matchmaking and session engine of                *)
(* tic-tac-online: routes/game/services.py (GameManager) driven by the     *)
(* connection handler of routes/game/controller.py (websocket_endpoint).   *)
(*                                                                         *)
(* One handler coroutine runs per accepted websocket.  Handlers are        *)
(* scheduled cooperatively: a handler runs without interruption up to its  *)
(* next network await (websocket.send_json / websocket.receive_json), so   *)
(* every action below is one such run-to-suspension segment.  A send step  *)
(* looks the recipient up in `connections`, hands the message to that      *)
(* channel and suspends; the following step is the resumption.             *)
(***************************************************************************)
EXTENDS Integers, Sequences, FiniteSets, TLC

\* ------------------------------------------------------------------ bounds
NumUsers == 4      \* identities of the account store: 1..NumUsers
MaxChan  == 2      \* websocket connections ever opened: 1..MaxChan
MaxGames == 1      \* rows ever inserted in the game table: 1..MaxGames
MaxQueue == 3      \* longest waiting list drawn by InitQueue
MaxChoice == 2     \* a client plays one of the first MaxChoice empty cells of MoveOrder
MaxLate  == 1      \* further connections opened by LateHandshake: MaxChan+1..MaxChan+MaxLate
MaxTokens == 2     \* tokens issued by IssueToken
ClockStep == 150   \* seconds by which Tick advances the clock
MaxTime  == 600    \* Tick stops at this time

\* ------------------------------------------------------- program constants
None == 0          \* Python None: empty cell, absent winner, no entry
CONTINUE == 0      \* is_game_over: game continues
WIN == 1           \* is_game_over: player won
DRAW == 2          \* is_game_over: draw
TTL == 300         \* create_websocket_token: expiry of a token, in seconds
MissingTokenCode == 4001   \* websocket_endpoint: close code for a missing token

Users    == 1..NumUsers
Channels == 1..(MaxChan + MaxLate)
GameIds  == 1..MaxGames
Idx      == 0..2   \* range(3)

VARIABLES
    queue,        \* GameManager.queue: deque of user ids
    connections,  \* GameManager.connections: user id -> channel (None: no key)
    games,        \* GameManager.games: dict game id -> session
    dbGames,      \* table "game": id -> row
    dbUsers,      \* table "user": id -> [wins, losses, draws]
    handler,      \* per channel: the websocket_endpoint coroutine
    nextChan,     \* number of websocket connections opened so far
    nextGame,     \* number of rows inserted in table "game" so far
    last,         \* the handler segment the event loop ran last, with its input
    client,       \* per channel: the GamePlayer at the other end of the websocket
    tokens,       \* redis: token -> [data, expire_at] for every key ever set
    now           \* the clock of the token store, in seconds

vars == <<queue, connections, games, dbGames, dbUsers, handler, nextChan, nextGame, last,
          client, tokens, now>>

\* ------------------------------------------------------------------ values
\* Python dicts as functions on the set of their keys.
DictEmpty == [k \in {} |-> None]

DictSet(d, k, v) == [x \in DOMAIN d \cup {k} |-> IF x = k THEN v ELSE d[x]]

DictDel(d, k) == [x \in DOMAIN d \ {k} |-> d[x]]

EmptyBoard == [r \in Idx |-> [c \in Idx |-> None]]

Username(u) == <<"user", u>>

\* The record kept in `last`: the segment, its channel and the client input.
Ran(op, c, arg) == [op |-> op, ch |-> c, arg |-> arg]

\* A handler that has not been started, and one waiting in receive_json.
Fresh == [pc |-> "init", user |-> None, gid |-> None, cur |-> None, oth |-> None,
          row |-> 0, col |-> 0, res |-> CONTINUE, sent |-> <<>>]

InLoop(u) == [Fresh EXCEPT !.pc = "recv", !.user = u]

\* A handler ended by an exception that websocket_endpoint does not catch.
Crashed(h) == [Fresh EXCEPT !.pc = "crashed", !.user = h.user]

Alive(ch) == handler[ch].pc \notin {"init", "closed", "crashed"}

\* ---------------------------------------------------------- is_game_over
\* is_game_over without the anti-diagonal test of line 74.
is_game_over_mut(board, player_id) ==
    IF \E i \in Idx :
          \/ (board[i][0] = board[i][1] /\ board[i][1] = board[i][2] /\ board[i][2] = player_id)
          \/ (board[0][i] = board[1][i] /\ board[1][i] = board[2][i] /\ board[2][i] = player_id)
    THEN WIN
    ELSE IF board[0][0] = board[1][1] /\ board[1][1] = board[2][2] /\ board[2][2] = player_id
    THEN WIN
    ELSE IF \A r \in Idx : \A c \in Idx : board[r][c] # None
    THEN DRAW
    ELSE CONTINUE

\* Lines 65-81: rows and columns, the two diagonals, then the full board.
is_game_over(board, player_id) ==
    IF \E i \in Idx :
          \/ (board[i][0] = board[i][1] /\ board[i][1] = board[i][2] /\ board[i][2] = player_id)
          \/ (board[0][i] = board[1][i] /\ board[1][i] = board[2][i] /\ board[2][i] = player_id)
    THEN WIN
    ELSE IF board[0][0] = board[1][1] /\ board[1][1] = board[2][2] /\ board[2][2] = player_id
    THEN WIN
    ELSE IF board[0][2] = board[1][1] /\ board[1][1] = board[2][0] /\ board[2][0] = player_id
    THEN WIN
    ELSE IF \A r \in Idx : \A c \in Idx : board[r][c] # None
    THEN DRAW
    ELSE CONTINUE

\* ------------------------------------------------------------ send_message
\* send_message(user_id, message): self.connections[user_id] raises KeyError
\* when the key is absent; send_json on a websocket whose handler has ended
\* either raises in the sender or is dropped by the server.
\* (First: a message for an absent identity is discarded without an error.)
SendOutcomes_mut(u) ==
    IF connections[u] = None THEN {"drop"}
    ELSE IF Alive(connections[u]) THEN {"ok"}
    ELSE {"raise", "drop"}

SendOutcomes(u) ==
    IF connections[u] = None THEN {"keyerror"}
    ELSE IF Alive(connections[u]) THEN {"ok"}
    ELSE {"raise", "drop"}

\* The handler state after handing `msg` for user u to the channel with
\* outcome o, suspended at `pc` when the send did not raise.
AfterSend(h, u, msg, o, pc) ==
    CASE o = "ok"   -> [h EXCEPT !.pc = pc,
                          !.sent = Append(@, [to |-> u, ch |-> connections[u], msg |-> msg])]
      [] o = "drop" -> [h EXCEPT !.pc = pc]
      [] OTHER      -> Crashed(h)

\* ---------------------------------------------------------------- messages
GameStartMsg(g, u1, u2) ==
    [type |-> "GAME_START", game_id |-> g,
     player1 |-> [id |-> u1, username |-> Username(u1)],
     player2 |-> [id |-> u2, username |-> Username(u2)],
     turn |-> u1]

GameMoveMsg(g, cur, oth, row, col) ==
    [type |-> "GAME_MOVE", game_id |-> g, player_id |-> cur, turn |-> oth,
     row |-> row, col |-> col]

GameEndMsg(g, cur, res) ==
    [type |-> "GAME_END", game_id |-> g, winner_id |-> IF res = WIN THEN cur ELSE None]

\* ------------------------------------------------------------ token store
\* An id that no row of table "user" has.
GhostUser == NumUsers + 1

\* A token string that create_websocket_token never returned.
ForgedToken == -1

\* json.dumps({"user_id": ..., "username": ...}): the text, key by key.
token_dumps(user_id) == <<"user_id", ToString(user_id), "username", Username(user_id)>>

\* json.loads(data)["user_id"]: the integer the text of the key denotes.
token_loads_user_id(text) ==
    CHOOSE n \in 1..GhostUser : ToString(n) = text[2]

\* redis setex(key, ttl, value) at time t.
setex(store, key, ttl, value, t) == DictSet(store, key, [data |-> value, expire_at |-> t + ttl])

\* redis get without expiry: a key once set is found for ever.
redis_get_mut(store, key, t) ==
    IF key \in DOMAIN store THEN store[key].data ELSE <<>>

\* redis get(key) at time t: nothing (the empty text here) for a key never
\* set or expired.
redis_get(store, key, t) ==
    IF key \in DOMAIN store /\ t < store[key].expire_at THEN store[key].data ELSE <<>>

\* uuid.uuid4(): a token no earlier call returned.
NewToken(store) == Cardinality(DOMAIN store) + 1

\* Lines 209-220: the store after create_websocket_token(user) at time t.
create_websocket_token(store, user_id, t) ==
    setex(store, NewToken(store), TTL, token_dumps(user_id), t)

\* Lines 223-236: the user id returned, or the message of the ValueError.
get_current_user_from_websocket_token(token, db, store, t) ==
    LET data == redis_get(store, token, t)
    IN  IF data = <<>> THEN [err |-> "Invalid token", user |-> None]
        ELSE IF token_loads_user_id(data) \notin DOMAIN db
        THEN [err |-> "User not found", user |-> None]
        ELSE [err |-> "", user |-> token_loads_user_id(data)]

\* The token is deleted when it is redeemed.
StoreAfterRedeem_mut(store, token) == DictDel(store, token)

\* Lines 223-236 write nothing to redis: the store after a redeem.
StoreAfterRedeem(store, token) == store

\* Every account has exchanged its credential for a token at time 0: the
\* token of user u is u.
IssuedAtStart == [t \in Users |-> [data |-> token_dumps(t), expire_at |-> TTL]]

\* Python list indexing: a negative index counts from the end.
PyIndex(i) == IF i < 0 THEN i + 3 ELSE i

\* ------------------------------------------------- the client of a channel
\* simulation.py, GamePlayer: current_game_id, its local board, and the turn
\* field of the last GAME_START or GAME_MOVE, from which is_my_turn is set.
FreshClient == [current_game_id |-> None, board |-> EmptyBoard, turn |-> None]

\* TicTacToeBoard.make_move: the cell is written only when it is None.
make_move(board, row, col, player_id) ==
    IF board[PyIndex(row)][PyIndex(col)] = None
    THEN [board EXCEPT ![PyIndex(row)][PyIndex(col)] = player_id]
    ELSE board

\* GamePlayer.handle_message, by message type.
handle_message(cl, data) ==
    CASE data.type = "GAME_START" ->
            [current_game_id |-> data.game_id, board |-> EmptyBoard, turn |-> data.turn]
      [] data.type = "GAME_MOVE" ->
            [cl EXCEPT !.board = make_move(@, data.row, data.col, data.player_id),
                       !.turn = data.turn]
      [] OTHER -> [cl EXCEPT !.current_game_id = None]

\* The clients after `msg` for user u was handed to its channel with outcome o.
Deliver(u, msg, o) ==
    IF o = "ok" THEN [client EXCEPT ![connections[u]] = handle_message(@, msg)] ELSE client

\* ------------------------------------------------------------------- Init
Init ==
    /\ queue = <<>>
    /\ connections = [u \in Users |-> None]
    /\ games = DictEmpty
    /\ dbGames = DictEmpty
    /\ dbUsers = [u \in Users |-> [wins |-> 0, losses |-> 0, draws |-> 0]]
    /\ handler = [c \in Channels |-> Fresh]
    /\ nextChan = 0
    /\ nextGame = 0
    /\ last = Ran("none", 0, <<>>)
    /\ client = [c \in Channels |-> FreshClient]
    /\ tokens = IssuedAtStart
    /\ now = 0

\* ------------------------------------------------------------- start_game
\* start_game giving the first move to user_id2.
NewSession_mut(u1, u2) ==
    [player1 |-> u1, player2 |-> u2,
     state |-> [player1_move_count |-> 0, player2_move_count |-> 0,
                turn |-> u2, board |-> [r \in Idx |-> [c \in Idx |-> None]]]]

NewSession(u1, u2) ==
    [player1 |-> u1, player2 |-> u2,
     state |-> [player1_move_count |-> 0, player2_move_count |-> 0,
                turn |-> u1, board |-> EmptyBoard]]

NewGameRow(u1, u2) ==
    [player1_id |-> u1, player2_id |-> u2, status |-> "in_progress",
     final_state |-> None, is_draw |-> FALSE, winner_id |-> None, loser_id |-> None,
     player1_move_count |-> 0, player2_move_count |-> 0]

\* Identities are opaque integers: they are named in the order in which they
\* first connect, so the k-th distinct identity to connect is k.
KnownUsers == {handler[c].user : c \in 1..nextChan} \cup {queue[i] : i \in 1..Len(queue)}

\* -------------------------------------------------------------- join_queue
\* pop() in place of popleft(): the newest waiting identity.
popleft_value_mut(q) == q[Len(q)]

\* Line 43, self.queue.popleft(): the value returned and the deque left.
popleft_value(q) == Head(q)

\* The waiting identity is read but left in the deque.
popleft_rest_mut(q) == q

\* An arrival is paired only when two identities wait.
HasWaiting_mut(q) == Len(q) > 1

\* Line 42: len(self.queue) > 0.
HasWaiting(q) == Len(q) > 0

popleft_rest(q) == Tail(q)

\* ----------------------------------------------------------------- connect
\* An entry the identity already has is kept (setdefault).
connect_mut(conns, user_id, websocket) ==
    IF conns[user_id] = None THEN [conns EXCEPT ![user_id] = websocket] ELSE conns

\* Line 35: self.connections[user_id] = websocket.
connect(conns, user_id, websocket) == [conns EXCEPT ![user_id] = websocket]

\* ---------------------------------------------- websocket_endpoint, joining
\* Lines 69-70 of the controller with connect, join_queue and start_game up
\* to its first send: `token` redeemed to user u.
Accept(u, token) ==
    LET c == nextChan + 1
        conn == connect(connections, u, c)
    IN  /\ u <= Cardinality(KnownUsers) + 1
        /\ nextChan' = c
        /\ last' = Ran("handshake", c, <<u, token>>)
        /\ connections' = conn
        /\ UNCHANGED dbUsers
        /\ IF HasWaiting(queue)
           THEN LET waiting_user_id == popleft_value(queue)
                    g == nextGame + 1
                    h == [InLoop(u) EXCEPT !.gid = g, !.cur = u, !.oth = waiting_user_id]
                IN  /\ nextGame < MaxGames
                    /\ queue' = popleft_rest(queue)
                    /\ nextGame' = g
                    /\ dbGames' = DictSet(dbGames, g, NewGameRow(u, waiting_user_id))
                    /\ games' = DictSet(games, g, NewSession(u, waiting_user_id))
                    \* connections[u] is the channel registered one line above
                    /\ handler' = [handler EXCEPT ![c] =
                          [h EXCEPT !.pc = "start_send1",
                                    !.sent = <<[to |-> u, ch |-> c,
                                                msg |-> GameStartMsg(g, u, waiting_user_id)]>>]]
                    /\ client' = [client EXCEPT ![c] =
                          handle_message(@, GameStartMsg(g, u, waiting_user_id))]
           ELSE /\ queue' = Append(queue, u)
                /\ handler' = [handler EXCEPT ![c] = InLoop(u)]
                /\ UNCHANGED <<games, dbGames, nextGame, client>>

\* Lines 52-70 of the controller: a websocket is accepted with `token` as
\* its query parameter (None: no parameter, or an empty one).
websocket_endpoint(token) ==
    LET c == nextChan + 1
        r == get_current_user_from_websocket_token(token, dbUsers, tokens, now)
    IN  /\ UNCHANGED now
        /\ IF token = None
           THEN \* lines 60-62: websocket.close(code=4001, reason="Missing token")
                /\ nextChan' = c
                /\ handler' = [handler EXCEPT ![c] = [Fresh EXCEPT !.pc = "closed"]]
                /\ last' = Ran("handshake_failed", c, <<token, "Missing token", MissingTokenCode>>)
                /\ UNCHANGED <<queue, connections, games, dbGames, dbUsers, nextGame, client,
                               tokens>>
           ELSE IF r.err # ""
           THEN \* lines 66-67: the ValueError leaves websocket_endpoint
                /\ nextChan' = c
                /\ handler' = [handler EXCEPT ![c] = [Fresh EXCEPT !.pc = "crashed"]]
                /\ last' = Ran("handshake_failed", c, <<token, r.err, None>>)
                /\ UNCHANGED <<queue, connections, games, dbGames, dbUsers, nextGame, client,
                               tokens>>
           ELSE /\ tokens' = StoreAfterRedeem(tokens, token)
                /\ Accept(r.user, token)

\* One of the first MaxChan connections is opened by user u with its token.
Handshake(u) == nextChan < MaxChan /\ websocket_endpoint(u)

\* A further connection is opened once MaxChan connections have been.
LateHandshake(u) ==
    MaxChan <= nextChan /\ nextChan < MaxChan + MaxLate /\ websocket_endpoint(u)

\* -------------------------------------------------------------- start_game
\* Line 174: the first send has returned; GAME_START goes to user_id2.
StartSend2(c) ==
    LET h == handler[c]
    IN  /\ h.pc = "start_send1"
        /\ UNCHANGED <<tokens, now>>
        /\ last' = Ran("start_send2", c, <<>>)
        /\ \E o \in SendOutcomes(h.oth) :
              /\ handler' = [handler EXCEPT ![c] =
                    AfterSend(h, h.oth, GameStartMsg(h.gid, h.cur, h.oth), o, "start_send2")]
              /\ client' = Deliver(h.oth, GameStartMsg(h.gid, h.cur, h.oth), o)
        /\ UNCHANGED <<queue, connections, games, dbGames, dbUsers, nextChan, nextGame>>

\* start_game and join_queue return; the handler enters its receive loop.
StartDone(c) ==
    /\ handler[c].pc = "start_send2"
    /\ UNCHANGED <<tokens, now>>
    /\ last' = Ran("start_done", c, <<>>)
    /\ handler' = [handler EXCEPT ![c] = InLoop(handler[c].user)]
    /\ UNCHANGED <<queue, connections, games, dbGames, dbUsers, nextChan, nextGame, client>>

\* --------------------------------------------------------------- play_move
\* The turn is left with the mover.
other_player_id_mut(game, current_player_id) == current_player_id

\* Line 179.
other_player_id(game, current_player_id) ==
    IF current_player_id = game.player1 THEN game.player2 ELSE game.player1

InRange(i) == i \in -3..2

\* The cell and the turn without the move count.
ApplyMove_mut(game, current_player_id, row, col) ==
    [game EXCEPT !.state.board[PyIndex(row)][PyIndex(col)] = current_player_id,
                 !.state.turn = IF current_player_id = game.player1
                                THEN game.player2 ELSE game.player1]

\* Lines 188-190: the cell, the turn and the mover's move count.
ApplyMove(game, current_player_id, row, col) ==
    LET g1 == [game EXCEPT !.state.board[PyIndex(row)][PyIndex(col)] = current_player_id]
        g2 == [g1 EXCEPT !.state.turn = other_player_id(game, current_player_id)]
    IN  IF current_player_id = game.player1
        THEN [g2 EXCEPT !.state.player1_move_count = @ + 1]
        ELSE [g2 EXCEPT !.state.player2_move_count = @ + 1]

\* The turn is checked for the two participants only.
WrongTurn_outsider(game, current_player_id) ==
    /\ current_player_id \in {game.player1, game.player2}
    /\ game.state.turn # current_player_id

\* The early returns left out.
WrongTurn_mut(game, current_player_id) == FALSE

Occupied_mut(game, row, col) == FALSE

\* Line 184 returns for every cell.
Occupied_all(game, row, col) == TRUE

\* Lines 180 and 184: the two early returns.
WrongTurn(game, current_player_id) == game.state.turn # current_player_id

Occupied(game, row, col) == game.state.board[PyIndex(row)][PyIndex(col)] # None

\* The cells a client submits: the order in which clients consider the empty
\* cells, and for a board the first MaxChoice empty cells of that order
\* together with every occupied cell.
MoveOrder == << <<0, 0>>, <<0, 1>>, <<0, 2>>, <<1, 1>>, <<1, 0>>, <<1, 2>>,
               <<2, 1>>, <<2, 0>>, <<2, 2>> >>

EmptyBefore(board, i) ==
    Cardinality({j \in 1..(i - 1) : board[MoveOrder[j][1]][MoveOrder[j][2]] = None})

Offered(board) ==
    {MoveOrder[i] : i \in {k \in 1..Len(MoveOrder) :
        \/ board[MoveOrder[k][1]][MoveOrder[k][2]] # None
        \/ EmptyBefore(board, k) < MaxChoice}}

ClientMoves(game_id) ==
    IF game_id \in DOMAIN games THEN Offered(games[game_id].state.board) ELSE {<<0, 0>>}

\* The handler of channel c receives {GAME_MOVE, game_id, row, col} and runs
\* play_move up to the first send (line 203).
PlayMove(c, game_id, row, col) ==
    LET h == handler[c]
        cur == h.user
        game == games[game_id]   \* read only when the key is present
    IN  /\ h.pc = "recv"
        /\ UNCHANGED <<tokens, now>>
        /\ last' = Ran("play_move", c, <<game_id, row, col>>)
        /\ UNCHANGED <<queue, connections, dbGames, dbUsers, nextChan, nextGame>>
        /\ IF game_id \notin DOMAIN games
           THEN \* self.games[game_id]: KeyError
                /\ handler' = [handler EXCEPT ![c] = Crashed(h)]
                /\ UNCHANGED <<games, client>>
           ELSE IF WrongTurn(game, cur)
           THEN UNCHANGED <<games, handler, client>>
           ELSE IF ~(InRange(row) /\ InRange(col))
           THEN \* board[row][col]: IndexError
                /\ handler' = [handler EXCEPT ![c] = Crashed(h)]
                /\ UNCHANGED <<games, client>>
           ELSE IF Occupied(game, row, col)
           THEN UNCHANGED <<games, handler, client>>
           ELSE LET oth == other_player_id(game, cur)
                    loc == [h EXCEPT !.gid = game_id, !.cur = cur, !.oth = oth,
                                     !.row = row, !.col = col]
                IN  /\ games' = [games EXCEPT ![game_id] = ApplyMove(game, cur, row, col)]
                    /\ \E o \in SendOutcomes(cur) :
                          /\ handler' = [handler EXCEPT ![c] =
                                AfterSend(loc, cur, GameMoveMsg(game_id, cur, oth, row, col),
                                          o, "move_send1")]
                          /\ client' = Deliver(cur, GameMoveMsg(game_id, cur, oth, row, col), o)

\* Line 204: the first send has returned; GAME_MOVE goes to the other player.
MoveSend2(c) ==
    LET h == handler[c]
    IN  /\ h.pc = "move_send1"
        /\ UNCHANGED <<tokens, now>>
        /\ last' = Ran("move_send2", c, <<>>)
        /\ \E o \in SendOutcomes(h.oth) :
              /\ handler' = [handler EXCEPT ![c] =
                    AfterSend(h, h.oth, GameMoveMsg(h.gid, h.cur, h.oth, h.row, h.col),
                              o, "move_send2")]
              /\ client' = Deliver(h.oth, GameMoveMsg(h.gid, h.cur, h.oth, h.row, h.col), o)
        /\ UNCHANGED <<queue, connections, games, dbGames, dbUsers, nextChan, nextGame>>

\* --------------------------------------------------------- handle_game_end
\* Lines 84-95: the second GAME_MOVE send has returned; win detection, and
\* on WIN or DRAW the GAME_END send to the mover.
HandleGameEnd(c) ==
    LET h == handler[c]
    IN  /\ h.pc = "move_send2"
        /\ UNCHANGED <<tokens, now>>
        /\ last' = Ran("handle_game_end", c, <<>>)
        /\ UNCHANGED <<queue, connections, games, dbGames, dbUsers, nextChan, nextGame>>
        /\ IF h.gid \notin DOMAIN games
           THEN \* is_game_over: self.games[game_id]: KeyError
                /\ handler' = [handler EXCEPT ![c] = Crashed(h)]
                /\ UNCHANGED client
           ELSE LET res == is_game_over(games[h.gid].state.board, h.cur)
                IN  IF res = CONTINUE
                    THEN /\ handler' = [handler EXCEPT ![c] = InLoop(h.user)]
                         /\ UNCHANGED client
                    ELSE \E o \in SendOutcomes(h.cur) :
                            /\ handler' = [handler EXCEPT ![c] =
                                  AfterSend([h EXCEPT !.res = res], h.cur,
                                            GameEndMsg(h.gid, h.cur, res), o, "end_send1")]
                            /\ client' = Deliver(h.cur, GameEndMsg(h.gid, h.cur, res), o)

\* Line 96: GAME_END goes to the opponent.
EndSend2(c) ==
    LET h == handler[c]
    IN  /\ h.pc = "end_send1"
        /\ UNCHANGED <<tokens, now>>
        /\ last' = Ran("end_send2", c, <<>>)
        /\ \E o \in SendOutcomes(h.oth) :
              /\ handler' = [handler EXCEPT ![c] =
                    AfterSend(h, h.oth, GameEndMsg(h.gid, h.cur, h.res), o, "end_send2")]
              /\ client' = Deliver(h.oth, GameEndMsg(h.gid, h.cur, h.res), o)
        /\ UNCHANGED <<queue, connections, games, dbGames, dbUsers, nextChan, nextGame>>

\* Lines 98-99.
winner_id(res, current_player_id) == IF res = WIN THEN current_player_id ELSE None

loser_id(res, opponent_player_id) == IF res = WIN THEN opponent_player_id ELSE None

\* Lines 100-113: the counters of the two accounts, one commit.
UpdateStats(db, res, current_player_id, opponent_player_id) ==
    IF winner_id(res, current_player_id) # None /\ loser_id(res, opponent_player_id) # None
    THEN LET d1 == [db EXCEPT ![current_player_id].wins = @ + 1]
         IN  [d1 EXCEPT ![opponent_player_id].losses = @ + 1]
    ELSE LET d1 == [db EXCEPT ![current_player_id].draws = @ + 1]
         IN  [d1 EXCEPT ![opponent_player_id].draws = @ + 1]

\* json.dumps of a board: the JSON text, cell by cell ("null" for None).
json_dumps(board) ==
    [r \in Idx |-> [c \in Idx |->
        IF board[r][c] = None THEN "null" ELSE ToString(board[r][c])]]

\* The game row with winner and loser exchanged.
CompletedRow_mut(rec, game, res, current_player_id, opponent_player_id) ==
    [rec EXCEPT !.status = "completed",
                !.winner_id = loser_id(res, opponent_player_id),
                !.loser_id = winner_id(res, current_player_id),
                !.is_draw = (res = DRAW),
                !.player1_move_count = game.state.player1_move_count,
                !.player2_move_count = game.state.player2_move_count,
                !.final_state = json_dumps(game.state.board)]

\* Lines 116-124: the terminal fields of the game row, second commit.
CompletedRow(rec, game, res, current_player_id, opponent_player_id) ==
    [rec EXCEPT !.status = "completed",
                !.winner_id = winner_id(res, current_player_id),
                !.loser_id = loser_id(res, opponent_player_id),
                !.is_draw = (res = DRAW),
                !.player1_move_count = game.state.player1_move_count,
                !.player2_move_count = game.state.player2_move_count,
                !.final_state = json_dumps(game.state.board)]

\* session.commit() at line 113 and at line 124: each commits or raises,
\* and a commit that raises leaves the database as the last commit left it.
CommitOutcomes == {"ok", "commit1_raises", "commit2_raises"}

\* Counters and game row in one transaction: nothing is kept unless both commit.
StatsAfter_mut(o, db, res, current_player_id, opponent_player_id) ==
    IF o = "ok" THEN UpdateStats(db, res, current_player_id, opponent_player_id) ELSE db

\* The counters are not written.
StatsAfter_skip(o, db, res, current_player_id, opponent_player_id) == db

\* Lines 100-113: the account table after the first commit.
StatsAfter(o, db, res, current_player_id, opponent_player_id) ==
    IF o = "commit1_raises" THEN db
    ELSE UpdateStats(db, res, current_player_id, opponent_player_id)

\* The session is deleted whether or not the commits succeeded.
GamesAfter_mut(o, d, game_id) == DictDel(d, game_id)

\* Line 126, reached only when no line before it raised.
GamesAfter(o, d, game_id) == IF o = "ok" THEN DictDel(d, game_id) ELSE d

\* Lines 98-126: the second GAME_END send has returned; both commits and
\* the removal from self.games.
EndPersist(c) ==
    LET h == handler[c]
    IN  /\ h.pc = "end_send2"
        /\ UNCHANGED <<tokens, now>>
        /\ UNCHANGED <<queue, connections, nextChan, nextGame, client>>
        /\ \E o \in CommitOutcomes :
              /\ last' = Ran("end_persist", c, <<o>>)
              /\ dbUsers' = StatsAfter(o, dbUsers, h.res, h.cur, h.oth)
              /\ IF o = "commit1_raises"
                 THEN /\ handler' = [handler EXCEPT ![c] = Crashed(h)]
                      /\ UNCHANGED <<games, dbGames>>
                 ELSE IF h.gid \notin DOMAIN games
                 THEN \* line 115, self.games[game_id]: KeyError after the first commit
                      /\ handler' = [handler EXCEPT ![c] = Crashed(h)]
                      /\ UNCHANGED <<games, dbGames>>
                 ELSE IF o = "commit2_raises"
                 THEN /\ handler' = [handler EXCEPT ![c] = Crashed(h)]
                      /\ games' = GamesAfter(o, games, h.gid)
                      /\ UNCHANGED dbGames
                 ELSE /\ dbGames' = [dbGames EXCEPT ![h.gid] =
                                        CompletedRow(@, games[h.gid], h.res, h.cur, h.oth)]
                      /\ games' = GamesAfter(o, games, h.gid)
                      /\ handler' = [handler EXCEPT ![c] = InLoop(h.user)]

\* ------------------------------------------- websocket_endpoint, disconnect
\* The sessions of the leaving identity are dropped from self.games.
SessionsAfterDisconnect_mut(d, user_id) ==
    [g \in {x \in DOMAIN d : d[x].player1 # user_id /\ d[x].player2 # user_id} |-> d[g]]

\* Lines 37-38: disconnect touches self.connections only; self.games is as
\* it was, whatever sessions user_id takes part in.
SessionsAfterDisconnect(d, user_id) == d

\* Lines 84-85 of the controller: receive_json raises WebSocketDisconnect and
\* the handler calls manager.disconnect(user.id): del self.connections[user_id].
Disconnect(c) ==
    LET h == handler[c]
    IN  /\ h.pc = "recv"
        /\ UNCHANGED <<tokens, now>>
        /\ last' = Ran("disconnect", c, <<>>)
        /\ games' = SessionsAfterDisconnect(games, h.user)
        /\ UNCHANGED <<queue, dbGames, dbUsers, nextChan, nextGame, client>>
        /\ IF connections[h.user] = None
           THEN \* KeyError
                /\ handler' = [handler EXCEPT ![c] = Crashed(h)]
                /\ UNCHANGED connections
           ELSE /\ connections' = [connections EXCEPT ![h.user] = None]
                /\ handler' = [handler EXCEPT ![c] = [Fresh EXCEPT !.pc = "closed", !.user = h.user]]

Next ==
    \/ \E u \in Users : Handshake(u)
    \/ \E c \in Channels : StartSend2(c)
    \/ \E c \in Channels : StartDone(c)
    \/ \E c \in Channels, g \in GameIds : \E m \in ClientMoves(g) : PlayMove(c, g, m[1], m[2])
    \/ \E c \in Channels : MoveSend2(c)
    \/ \E c \in Channels : HandleGameEnd(c)
    \/ \E c \in Channels : EndSend2(c)
    \/ \E c \in Channels : EndPersist(c)
    \/ \E c \in Channels : Disconnect(c)

Spec == Init /\ [][Next]_vars

\* ------------------------------------------ a connection opened late
\* The program with a further connection (a returning identity or a new
\* one) opened beside the first MaxChan, the clients playing the first empty
\* cell of MoveOrder.
FirstMoves(game_id) ==
    IF game_id \in DOMAIN games
    THEN {MoveOrder[i] : i \in {k \in 1..Len(MoveOrder) :
             /\ games[game_id].state.board[MoveOrder[k][1]][MoveOrder[k][2]] = None
             /\ EmptyBefore(games[game_id].state.board, k) = 0}}
    ELSE {<<0, 0>>}

NextLate ==
    \/ \E u \in Users : Handshake(u)
    \/ \E u \in Users : LateHandshake(u)
    \/ \E c \in Channels : StartSend2(c)
    \/ \E c \in Channels : StartDone(c)
    \/ \E c \in Channels, g \in GameIds : \E m \in FirstMoves(g) : PlayMove(c, g, m[1], m[2])
    \/ \E c \in Channels : MoveSend2(c)
    \/ \E c \in Channels : HandleGameEnd(c)
    \/ \E c \in Channels : EndSend2(c)
    \/ \E c \in Channels : EndPersist(c)
    \/ \E c \in Channels : Disconnect(c)

SpecLate == Init /\ [][NextLate]_vars

\* ------------------------------------------------- the queue on its own
\* GameManager with a waiting list of any length and order, as
\* test_join_queue_second_player sets it up: the queued identities have made
\* no connection of their own.
InitQueue ==
    /\ queue \in {q \in UNION {[1..n -> Users] : n \in 0..MaxQueue} :
                    \A i, j \in 1..Len(q) : i # j => q[i] # q[j]}
    /\ connections = [u \in Users |-> None]
    /\ games = DictEmpty
    /\ dbGames = DictEmpty
    /\ dbUsers = [u \in Users |-> [wins |-> 0, losses |-> 0, draws |-> 0]]
    /\ handler = [c \in Channels |-> Fresh]
    /\ nextChan = 0
    /\ nextGame = 0
    /\ last = Ran("none", 0, <<>>)
    /\ client = [c \in Channels |-> FreshClient]
    /\ tokens = IssuedAtStart
    /\ now = 0

NextQueue ==
    \/ \E u \in Users : Handshake(u)
    \/ \E c \in Channels : StartSend2(c)
    \/ \E c \in Channels : StartDone(c)

SpecQueue == InitQueue /\ [][NextQueue]_vars

\* -------------------------------------------- win detection on its own
\* handle_game_end entered for any board over {None, 1, 2} and either
\* identity as the mover: both players connected, the mover's handler about
\* to run win detection.
CountOf(board, u) == Cardinality({rc \in Idx \X Idx : board[rc[1]][rc[2]] = u})

InitWin ==
    \E board \in [Idx -> [Idx -> {None, 1, 2}]], mover \in {1, 2} :
        /\ queue = <<>>
        /\ connections = [u \in Users |-> IF u \in {1, 2} THEN u ELSE None]
        /\ games = DictSet(DictEmpty, 1,
              [player1 |-> 1, player2 |-> 2,
               state |-> [player1_move_count |-> CountOf(board, 1),
                          player2_move_count |-> CountOf(board, 2),
                          turn |-> 3 - mover, board |-> board]])
        /\ dbGames = DictSet(DictEmpty, 1, NewGameRow(1, 2))
        /\ dbUsers = [u \in Users |-> [wins |-> 0, losses |-> 0, draws |-> 0]]
        /\ handler = [c \in Channels |->
              IF c = mover
              THEN [InLoop(c) EXCEPT !.pc = "move_send2", !.gid = 1, !.cur = mover,
                                      !.oth = 3 - mover]
              ELSE IF c = 3 - mover THEN InLoop(c) ELSE Fresh]
        /\ nextChan = 2
        /\ nextGame = 1
        /\ last = Ran("move_send2", mover, <<>>)
        /\ client = [c \in Channels |->
              IF c \in {1, 2}
              THEN [current_game_id |-> 1, board |-> board, turn |-> 3 - mover]
              ELSE FreshClient]
        /\ tokens = IssuedAtStart
        /\ now = 0

NextWin ==
    \/ \E c \in Channels : HandleGameEnd(c)
    \/ \E c \in Channels : EndSend2(c)
    \/ \E c \in Channels : EndPersist(c)

SpecWin == InitWin /\ [][NextWin]_vars

\* ------------------------------------------ the credential exchange
\* The token store from empty, or holding one live token whose account has
\* since been deleted (test_..._user_not_found), with tokens issued on
\* request, time passing, and handshakes presenting no token, a token never
\* issued or any token of the store.
InitToken ==
    /\ queue = <<>>
    /\ connections = [u \in Users |-> None]
    /\ games = DictEmpty
    /\ dbGames = DictEmpty
    /\ dbUsers = [u \in Users |-> [wins |-> 0, losses |-> 0, draws |-> 0]]
    /\ handler = [c \in Channels |-> Fresh]
    /\ nextChan = 0
    /\ nextGame = 0
    /\ last = Ran("none", 0, <<>>)
    /\ client = [c \in Channels |-> FreshClient]
    /\ tokens \in {DictEmpty, create_websocket_token(DictEmpty, GhostUser, 0)}
    /\ now = 0

\* POST /game/websocket-token by the authenticated user u.
IssueToken(u) ==
    /\ Cardinality({t \in DOMAIN tokens : token_loads_user_id(tokens[t].data) # GhostUser})
          < MaxTokens
    /\ u <= Cardinality(KnownUsers) + 1
    /\ tokens' = create_websocket_token(tokens, u, now)
    /\ last' = Ran("issue", 0, <<u, NewToken(tokens)>>)
    /\ UNCHANGED <<queue, connections, games, dbGames, dbUsers, handler, nextChan, nextGame,
                   client, now>>

\* Time passes.
Tick ==
    /\ now < MaxTime
    /\ now' = now + ClockStep
    /\ last' = Ran("tick", 0, <<>>)
    /\ UNCHANGED <<queue, connections, games, dbGames, dbUsers, handler, nextChan, nextGame,
                   client, tokens>>

\* A websocket is opened with `token` in its query string.
TokenHandshake(token) == nextChan < MaxChan + MaxLate /\ websocket_endpoint(token)

Presented == DOMAIN tokens \cup {None, ForgedToken}

NextToken ==
    \/ \E u \in Users : IssueToken(u)
    \/ Tick
    \/ \E token \in Presented : TokenHandshake(token)
    \/ \E c \in Channels : StartSend2(c)
    \/ \E c \in Channels : StartDone(c)

SpecToken == InitToken /\ [][NextToken]_vars

\* ------------------------------------------ coordinates out of range
\* The program with clients that also send coordinates outside 0..2: the
\* last cell counted from the end, and a column past the end.
RangeMoves(game_id) == FirstMoves(game_id) \cup {<<-1, -1>>, <<0, 3>>}

NextRange ==
    \/ \E u \in Users : Handshake(u)
    \/ \E c \in Channels : StartSend2(c)
    \/ \E c \in Channels : StartDone(c)
    \/ \E c \in Channels, g \in GameIds : \E m \in RangeMoves(g) : PlayMove(c, g, m[1], m[2])
    \/ \E c \in Channels : MoveSend2(c)
    \/ \E c \in Channels : HandleGameEnd(c)
    \/ \E c \in Channels : EndSend2(c)
    \/ \E c \in Channels : EndPersist(c)
    \/ \E c \in Channels : Disconnect(c)

SpecRange == Init /\ [][NextRange]_vars

\* ------------------------------------------ the program under fair scheduling
\* Clients that address sessions in memory only; the event loop resumes every
\* handler whose send has returned, and the participant whose turn it is
\* goes on submitting an empty cell.
LiveMove(c, game_id, row, col) == game_id \in DOMAIN games /\ PlayMove(c, game_id, row, col)

NextLive ==
    \/ \E u \in Users : Handshake(u)
    \/ \E c \in Channels : StartSend2(c)
    \/ \E c \in Channels : StartDone(c)
    \/ \E c \in Channels, g \in GameIds : \E m \in ClientMoves(g) : LiveMove(c, g, m[1], m[2])
    \/ \E c \in Channels : MoveSend2(c)
    \/ \E c \in Channels : HandleGameEnd(c)
    \/ \E c \in Channels : EndSend2(c)
    \/ \E c \in Channels : EndPersist(c)
    \/ \E c \in Channels : Disconnect(c)

\* The resumption of handler c after an await that has returned.
Resume(c) ==
    \/ StartSend2(c)
    \/ StartDone(c)
    \/ MoveSend2(c)
    \/ HandleGameEnd(c)
    \/ EndSend2(c)
    \/ EndPersist(c)

\* The participant whose turn it is submits an empty cell of session g.
TurnMove(g) ==
    \E c \in Channels : \E m \in ClientMoves(g) :
        /\ g \in DOMAIN games
        /\ handler[c].user = games[g].state.turn
        /\ games[g].state.board[m[1]][m[2]] = None
        /\ LiveMove(c, g, m[1], m[2])

SpecLive ==
    /\ Init
    /\ [][NextLive]_vars
    /\ \A c \in Channels : WF_vars(Resume(c))
    /\ \A g \in GameIds : WF_vars(TurnMove(g))

\* ================================================================ claims
\* What the claims speak of, stated without the operators of the model.
Sessions == DOMAIN games

Board(g) == games[g].state.board

Lines ==
    { {<<0, 0>>, <<0, 1>>, <<0, 2>>}, {<<1, 0>>, <<1, 1>>, <<1, 2>>},
      {<<2, 0>>, <<2, 1>>, <<2, 2>>},
      {<<0, 0>>, <<1, 0>>, <<2, 0>>}, {<<0, 1>>, <<1, 1>>, <<2, 1>>},
      {<<0, 2>>, <<1, 2>>, <<2, 2>>},
      {<<0, 0>>, <<1, 1>>, <<2, 2>>}, {<<0, 2>>, <<1, 1>>, <<2, 0>>} }

HasLine(board, u) == \E l \in Lines : \A rc \in l : board[rc[1]][rc[2]] = u

Full(board) == \A r \in Idx, c \in Idx : board[r][c] # None

Outcome(board, u) ==
    IF HasLine(board, u) THEN WIN ELSE IF Full(board) THEN DRAW ELSE CONTINUE

\* The session has two different identities as participants.
TwoPlayers(game) == game.player1 # game.player2

Partner(game, u) == IF u = game.player1 THEN game.player2 ELSE game.player1

\* The step just taken is play_move accepting a move in session g.
AcceptedStep(g) ==
    /\ last'.op = "play_move"
    /\ last'.arg[1] = g
    /\ g \in Sessions
    /\ g \in DOMAIN games'
    /\ games'[g] # games[g]

MsgsOfType(c, t) == {i \in 1..Len(handler[c].sent) : handler[c].sent[i].msg.type = t}

\* ----------------------------------------------------------------- C1
\* C1: in every session the mover of an accepted move is the turn stored by
\* the previous accepted move (by start_game for the first), the turn changes
\* at accepted moves only and then passes to the mover's partner, and every
\* GAME_MOVE sent for the move carries that stored turn and the mover.
C1_MoverIsTurn ==
    \A g \in GameIds : AcceptedStep(g) =>
        LET mover == handler[last'.ch].user
        IN  /\ mover = games[g].state.turn
            /\ games'[g].state.turn = Partner(games[g], mover)
            /\ \A i \in 1..Len(handler'[last'.ch].sent) :
                  LET m == handler'[last'.ch].sent[i].msg
                  IN  m.type = "GAME_MOVE" /\ m.game_id = g /\ m.player_id = mover
                      /\ m.turn = games'[g].state.turn

C1_TurnFrame ==
    \A g \in Sessions \cap DOMAIN games' :
        games'[g].state.turn # games[g].state.turn => AcceptedStep(g)

C1_SameBroadcast ==
    \A c \in Channels :
        (last'.op = "move_send2" /\ last'.ch = c /\ handler'[c].pc = "move_send2") =>
            /\ \A i \in 1..Len(handler[c].sent) : handler'[c].sent[i] = handler[c].sent[i]
            /\ \A i, j \in 1..Len(handler'[c].sent) :
                  handler'[c].sent[i].msg = handler'[c].sent[j].msg

C1_TurnAlternates ==
    [][C1_MoverIsTurn /\ C1_TurnFrame /\ C1_SameBroadcast]_vars

\* A second accepted move of a session with two different participants, its
\* first GAME_MOVE handed to the mover.
C1_Witness ==
    /\ last.op = "play_move"
    /\ handler[last.ch].pc = "move_send1"
    /\ Len(handler[last.ch].sent) = 1
    /\ \E g \in Sessions :
          /\ g = last.arg[1]
          /\ games[g].player1 # games[g].player2
          /\ games[g].state.player1_move_count = 1
          /\ games[g].state.player2_move_count = 1
          /\ games[g].state.turn = games[g].player1

\* ----------------------------------------------------------------- C2
\* C2: a board cell that holds an identity holds the same identity in every
\* later state of the session, and a session id is never given to a second
\* session.
C2_CellsKept ==
    \A g \in Sessions \cap DOMAIN games' : \A r \in Idx, c \in Idx :
        Board(g)[r][c] # None => games'[g].state.board[r][c] = Board(g)[r][c]

C2_FreshIds == \A g \in DOMAIN games' \ Sessions : g \notin DOMAIN dbGames

C2_WriteOnce == [][C2_CellsKept /\ C2_FreshIds]_vars

\* The player whose turn it is has just submitted a cell the opponent holds.
C2_Witness ==
    /\ last.op = "play_move"
    /\ last.arg[1] \in Sessions
    /\ LET g == last.arg[1]
           u == handler[last.ch].user
       IN  /\ games[g].state.turn = u
           /\ games[g].player1 # games[g].player2
           /\ Board(g)[last.arg[2]][last.arg[3]] = Partner(games[g], u)

\* ----------------------------------------------------------------- C3
\* C3: a play_move call with an unknown game id, by a mover who is not the
\* session's turn, or on an occupied cell changes no session, no game row, no
\* account counter, nothing of the queue or the registry, and hands no
\* message to any channel.
RejectedCall ==
    /\ last'.op = "play_move"
    /\ LET g == last'.arg[1]
       IN  \/ g \notin Sessions
           \/ games[g].state.turn # handler[last'.ch].user
           \/ Board(g)[last'.arg[2]][last'.arg[3]] # None

C3_RejectedIsNoOp ==
    [][RejectedCall =>
          /\ UNCHANGED <<queue, connections, games, dbGames, dbUsers>>
          /\ handler'[last'.ch].sent = <<>>
          /\ \A c \in Channels \ {last'.ch} : handler'[c] = handler[c]]_vars

\* A move submitted out of turn on a board that already has a move; the
\* handler is back in its receive loop.
C3_Witness ==
    /\ last.op = "play_move"
    /\ last.arg[1] \in Sessions
    /\ handler[last.ch].pc = "recv"
    /\ LET g == last.arg[1]
       IN  /\ games[g].state.turn # handler[last.ch].user
           /\ Board(g)[last.arg[2]][last.arg[3]] = None
           /\ Board(g) # EmptyBoard

\* ----------------------------------------------------------------- C4
\* C4: an accepted move by M at an empty cell (r, c) that does not end the
\* game sets the cell to M, passes the turn to the other participant, raises
\* M's move count by one, sends one GAME_MOVE (M, the new turn, r, c) to each
\* participant, sends no GAME_END and leaves the session in memory.  Stated
\* for sessions of two different identities.
MovePcs == {"move_send1", "move_send2"}

\* Handler c is running play_move for a move that leaves the game open.
OpenMove(c) ==
    /\ handler[c].pc \in MovePcs
    /\ handler[c].gid \in Sessions
    /\ TwoPlayers(games[handler[c].gid])
    /\ Outcome(Board(handler[c].gid), handler[c].cur) = CONTINUE

C4_Applied ==
    \A g \in GameIds :
        (/\ AcceptedStep(g)
         /\ TwoPlayers(games[g])
         /\ Outcome(games'[g].state.board, handler[last'.ch].user) = CONTINUE) =>
            LET c == last'.ch
                M == handler[c].user
                row == last'.arg[2]
                col == last'.arg[3]
                old == games[g]
                new == games'[g]
            IN  /\ new.state.board = [old.state.board EXCEPT ![row][col] = M]
                /\ new.state.turn = Partner(old, M)
                /\ new.state.player1_move_count + new.state.player2_move_count
                      = old.state.player1_move_count + old.state.player2_move_count + 1
                /\ IF M = old.player1
                   THEN new.state.player1_move_count = old.state.player1_move_count + 1
                   ELSE new.state.player2_move_count = old.state.player2_move_count + 1
                /\ handler'[c].pc = "move_send1"
                /\ handler'[c].sent =
                      <<[to |-> M, ch |-> connections[M],
                         msg |-> [type |-> "GAME_MOVE", game_id |-> g, player_id |-> M,
                                  turn |-> new.state.turn, row |-> row, col |-> col]]>>

C4_Broadcast ==
    \A c \in Channels :
        (OpenMove(c) /\ last'.ch = c /\ last'.op = "move_send2") =>
            /\ handler'[c].pc = "move_send2"
            /\ Len(handler'[c].sent) = 2
            /\ handler'[c].sent[2].to = Partner(games[handler[c].gid], handler[c].cur)
            /\ handler'[c].sent[2].msg = handler[c].sent[1].msg

C4_Returns ==
    \A c \in Channels :
        (OpenMove(c) /\ last'.ch = c /\ last'.op = "handle_game_end") =>
            /\ handler'[c].pc = "recv"
            /\ MsgsOfType(c, "GAME_END") = {}
            /\ Cardinality(MsgsOfType(c, "GAME_MOVE")) = 2
            /\ handler[c].gid \in DOMAIN games'

C4_AcceptedMove == [][C4_Applied /\ C4_Broadcast /\ C4_Returns]_vars

\* ----------------------------------------------------------------- C5
\* C5: terminal handling runs at most once per session: the counter and record
\* update of a session of two different identities runs only while the
\* session's record is in progress and the session is in memory, and a
\* completed session is gone from memory.
RECURSIVE StatsUpTo(_)
StatsUpTo(n) ==
    IF n = 0 THEN 0
    ELSE dbUsers[n].wins + dbUsers[n].losses + dbUsers[n].draws + StatsUpTo(n - 1)

CompletedRows == {g \in DOMAIN dbGames : dbGames[g].status = "completed"}

EndPcs == {"end_send1", "end_send2"}

C5_OnceOnly ==
    \A c \in Channels :
        (/\ last'.op = "end_persist"
         /\ last'.ch = c
         /\ dbGames[handler[c].gid].player1_id # dbGames[handler[c].gid].player2_id) =>
            /\ dbGames[handler[c].gid].status = "in_progress"
            /\ handler[c].gid \in Sessions

C5_Gone == \A g \in DOMAIN dbGames' : dbGames'[g].status = "completed" => g \notin DOMAIN games'

C5_TerminalOnce == [][C5_OnceOnly /\ C5_Gone]_vars

\* ----------------------------------------------------------------- C6
\* C6: when an accepted move by M completes a line of M's cells, both
\* participants receive GAME_END with winner_id = M, M's win counter and the
\* other participant's loss counter rise by one, no other counter changes,
\* and the session is gone from memory afterwards.  Stated for sessions of
\* two different identities and a database that accepts both commits.
HandlingPcs == MovePcs \cup EndPcs

WinMove(c) ==
    /\ handler[c].pc \in HandlingPcs
    /\ handler[c].gid \in Sessions
    /\ TwoPlayers(games[handler[c].gid])
    /\ HasLine(Board(handler[c].gid), handler[c].cur)

GameEndTo(c, u, w) ==
    \E i \in 1..Len(handler[c].sent) :
        /\ handler[c].sent[i].to = u
        /\ handler[c].sent[i].msg =
              [type |-> "GAME_END", game_id |-> handler[c].gid, winner_id |-> w]

C6_Started ==
    \A g \in GameIds :
        (/\ AcceptedStep(g)
         /\ TwoPlayers(games[g])
         /\ HasLine(games'[g].state.board, handler[last'.ch].user)) =>
            handler'[last'.ch].pc = "move_send1"

C6_Finished ==
    \A c \in Channels : (WinMove(c) /\ last'.ch = c) =>
        LET M == handler[c].cur
            O == Partner(games[handler[c].gid], M)
        IN  /\ last'.op # "end_persist" => handler'[c].pc # "crashed"
            /\ (last'.op = "end_persist" /\ handler'[c].pc # "crashed") =>
                  /\ GameEndTo(c, M, M)
                  /\ GameEndTo(c, O, M)
                  /\ \A u \in Users :
                        /\ dbUsers'[u].wins = dbUsers[u].wins + (IF u = M THEN 1 ELSE 0)
                        /\ dbUsers'[u].losses = dbUsers[u].losses + (IF u = O THEN 1 ELSE 0)
                        /\ dbUsers'[u].draws = dbUsers[u].draws
                  /\ handler[c].gid \notin DOMAIN games'

C6_WinEndsGame == [][C6_Started /\ C6_Finished]_vars

\* ----------------------------------------------------------------- C7
\* C7: when an accepted move fills the ninth cell and no line belongs to the
\* mover, both participants receive GAME_END with winner_id = null, each
\* participant's draw counter rises by one, no win or loss counter changes,
\* and the session is removed from memory.  Stated for sessions of two
\* different identities and a database that accepts both commits.
DrawMove(c) ==
    /\ handler[c].pc \in HandlingPcs
    /\ handler[c].gid \in Sessions
    /\ TwoPlayers(games[handler[c].gid])
    /\ Full(Board(handler[c].gid))
    /\ ~HasLine(Board(handler[c].gid), handler[c].cur)

C7_Started ==
    \A g \in GameIds :
        (/\ AcceptedStep(g)
         /\ TwoPlayers(games[g])
         /\ Full(games'[g].state.board)
         /\ ~HasLine(games'[g].state.board, handler[last'.ch].user)) =>
            handler'[last'.ch].pc = "move_send1"

C7_Finished ==
    \A c \in Channels : (DrawMove(c) /\ last'.ch = c) =>
        LET M == handler[c].cur
            O == Partner(games[handler[c].gid], M)
        IN  /\ last'.op # "end_persist" => handler'[c].pc # "crashed"
            /\ (last'.op = "end_persist" /\ handler'[c].pc # "crashed") =>
                  /\ GameEndTo(c, M, None)
                  /\ GameEndTo(c, O, None)
                  /\ \A u \in Users :
                        /\ dbUsers'[u].draws = dbUsers[u].draws + (IF u \in {M, O} THEN 1 ELSE 0)
                        /\ dbUsers'[u].wins = dbUsers[u].wins
                        /\ dbUsers'[u].losses = dbUsers[u].losses
                  /\ handler[c].gid \notin DOMAIN games'

C7_DrawEndsGame == [][C7_Started /\ C7_Finished]_vars

\* ----------------------------------------------------------------- C8
\* C8: for every board and candidate, win detection yields WIN exactly when
\* one of the 8 lines holds the candidate in its three cells (also on a full
\* board), otherwise DRAW exactly when every cell is occupied, otherwise
\* CONTINUE; handle_game_end returns on CONTINUE and on WIN or DRAW sends
\* GAME_END naming the candidate or null.
C8_Detected ==
    \A c \in Channels :
        (/\ last'.op = "handle_game_end"
         /\ last'.ch = c
         /\ handler[c].gid \in Sessions
         /\ connections[handler[c].cur] \in Channels
         /\ Alive(connections[handler[c].cur])) =>
            LET h == handler[c]
                e == Outcome(Board(h.gid), h.cur)
            IN  IF e = CONTINUE
                THEN handler'[c].pc = "recv"
                ELSE /\ handler'[c].pc = "end_send1"
                     /\ handler'[c].res = e
                     /\ handler'[c].sent[Len(handler'[c].sent)].msg =
                           [type |-> "GAME_END", game_id |-> h.gid,
                            winner_id |-> IF e = WIN THEN h.cur ELSE None]

C8_WinDetector == [][C8_Detected]_vars

\* A full board holding a line of the candidate has been judged a win.
C8_Witness ==
    \E c \in Channels :
        /\ last.op = "handle_game_end"
        /\ last.ch = c
        /\ handler[c].pc = "end_send1"
        /\ handler[c].res = WIN
        /\ Full(Board(handler[c].gid))
        /\ HasLine(Board(handler[c].gid), handler[c].cur)

\* ----------------------------------------------------------------- C9
\* The step just taken is a handshake that found an identity waiting.
PairingStep == last'.op = "handshake" /\ Len(queue) > 0

\* C9 as claimed: when A waits and B joins, the session's turn and the turn
\* of GAME_START are the first-arriving A, and A and B both receive GAME_START
\* with the same game id and participant data.
C9_WaitingFirst ==
    PairingStep =>
        LET A == Head(queue)
            c == last'.ch
            g == nextGame'
        IN  /\ games'[g].state.turn = A
            /\ handler'[c].sent[1].msg.turn = A

C9_BothReceive ==
    \A c \in Channels :
        (last'.op = "start_send2" /\ last'.ch = c) =>
            /\ handler'[c].pc = "start_send2"
            /\ Len(handler'[c].sent) = 2
            /\ handler'[c].sent[2].msg = handler[c].sent[1].msg
            /\ {handler'[c].sent[1].to, handler'[c].sent[2].to}
                  = {handler[c].sent[1].msg.player1.id, handler[c].sent[1].msg.player2.id}

C9_ArrivingFirst ==
    PairingStep =>
        LET A == Head(queue)
            B == last'.arg[1]
            c == last'.ch
            g == nextGame'
        IN  /\ DOMAIN games' = Sessions \cup {g}
            /\ g \notin Sessions
            /\ games'[g].player1 = B
            /\ games'[g].player2 = A
            /\ games'[g].state.turn = B
            /\ handler'[c].sent =
                  <<[to |-> B, ch |-> c,
                     msg |-> [type |-> "GAME_START", game_id |-> g,
                              player1 |-> [id |-> B, username |-> Username(B)],
                              player2 |-> [id |-> A, username |-> Username(A)],
                              turn |-> B]]>>

C9_SameStart ==
    \A c \in Channels :
        (last'.op = "start_send2" /\ last'.ch = c) =>
            LET first == handler[c].sent[1]
                A == first.msg.player2.id
            IN  /\ first.to = first.msg.player1.id
                /\ handler'[c].pc = "start_send2" =>
                      /\ handler'[c].sent[1] = first
                      /\ \A i \in 2..Len(handler'[c].sent) :
                            handler'[c].sent[i].msg = first.msg /\ handler'[c].sent[i].to = A
                /\ (connections[A] \in Channels /\ Alive(connections[A])) =>
                      handler'[c].sent =
                         <<first, [to |-> A, ch |-> connections[A], msg |-> first.msg]>>

C10_Join ==
    last'.op = "handshake" =>
        LET u == last'.arg[1]
        IN  IF Len(queue) > 0
            THEN /\ queue' = [i \in 1..(Len(queue) - 1) |-> queue[i + 1]]
                 /\ Cardinality(DOMAIN games' \ Sessions) = 1
                 /\ \A g \in DOMAIN games' \ Sessions :
                       games'[g].player1 = u /\ games'[g].player2 = queue[1]
            ELSE /\ queue' = <<u>>
                 /\ games' = games
                 /\ dbGames' = dbGames

C10_QueueFrame == queue' # queue => last'.op = "handshake"

C10_StrictFifo == [][C10_Join /\ C10_QueueFrame]_vars

\* An arrival has been paired with the head of a queue of three: two wait.
C10_Witness ==
    /\ last.op = "handshake"
    /\ Len(queue) = 2
    /\ \E g \in Sessions :
          /\ games[g].player1 = last.arg[1]
          /\ games[g].player2 \notin {queue[1], queue[2], last.arg[1]}

\* ----------------------------------------------------------------- C11
\* C11: join_queue by I while exactly one identity W waits empties the queue
\* and starts exactly one game, with I as first and W as second participant.
NewRows == DOMAIN dbGames' \ DOMAIN dbGames

C11_Pairs ==
    (last'.op = "handshake" /\ Len(queue) = 1) =>
        LET I == last'.arg[1]
            W == queue[1]
        IN  /\ queue' = <<>>
            /\ Cardinality(NewRows) = 1
            /\ nextGame' = nextGame + 1
            /\ DOMAIN games' \ Sessions = NewRows
            /\ \A g \in NewRows :
                  /\ dbGames'[g].player1_id = I /\ dbGames'[g].player2_id = W
                  /\ games'[g].player1 = I /\ games'[g].player2 = W
                  /\ handler'[last'.ch].sent[1].msg.player1.id = I
                  /\ handler'[last'.ch].sent[1].msg.player2.id = W

C11_JoinSecond == [][C11_Pairs]_vars

\* I has just joined while W, another identity, was the one waiting.
C11_Witness ==
    /\ last.op = "handshake"
    /\ queue = <<>>
    /\ \E g \in Sessions :
          /\ games[g].player1 = last.arg[1]
          /\ games[g].player2 # last.arg[1]
          /\ dbGames[g].player2_id = games[g].player2

\* ----------------------------------------------------------------- C12
\* C12: start_game(a, b) creates a game row in progress with zero move
\* counts, an in-memory session under the row's id with player1 = a,
\* player2 = b, an empty board, zero move counts and turn = a, and sends
\* exactly one GAME_START (that id, both participants, turn = a) to each of
\* a and b.  Stated for a # b.
StartMsg(g, a, b) ==
    [type |-> "GAME_START", game_id |-> g,
     player1 |-> [id |-> a, username |-> Username(a)],
     player2 |-> [id |-> b, username |-> Username(b)],
     turn |-> a]

C12_Created ==
    (last'.op = "handshake" /\ Len(queue) > 0 /\ queue[1] # last'.arg[1]) =>
        LET a == last'.arg[1]
            b == queue[1]
            g == nextGame'
            c == last'.ch
        IN  /\ g \notin DOMAIN dbGames /\ g \notin Sessions
            /\ dbGames'[g].status = "in_progress"
            /\ dbGames'[g].player1_id = a /\ dbGames'[g].player2_id = b
            /\ dbGames'[g].player1_move_count = 0 /\ dbGames'[g].player2_move_count = 0
            /\ dbGames'[g].winner_id = None /\ dbGames'[g].loser_id = None
            /\ games'[g].player1 = a /\ games'[g].player2 = b
            /\ \A r \in Idx, k \in Idx : games'[g].state.board[r][k] = None
            /\ games'[g].state.player1_move_count = 0
            /\ games'[g].state.player2_move_count = 0
            /\ games'[g].state.turn = a
            /\ handler'[c].pc = "start_send1"
            /\ handler'[c].sent = <<[to |-> a, ch |-> c, msg |-> StartMsg(g, a, b)]>>

C12_SentToBoth ==
    \A c \in Channels :
        (/\ last'.op = "start_send2"
         /\ last'.ch = c
         /\ handler[c].cur # handler[c].oth) =>
            /\ handler'[c].pc = "start_send2"
            /\ Len(handler'[c].sent) = 2
            /\ handler'[c].sent[1] = handler[c].sent[1]
            /\ handler'[c].sent[2].to = handler[c].sent[1].msg.player2.id
            /\ handler'[c].sent[2].msg = handler[c].sent[1].msg

C12_Returned ==
    \A c \in Channels :
        (last'.op = "start_done" /\ last'.ch = c) => handler'[c].pc = "recv"

C12_StartGame == [][C12_Created /\ C12_SentToBoth /\ C12_Returned]_vars

\* ----------------------------------------------------------------- C13
\* C13: every session in memory has two distinct participants, also after
\* one identity has opened two channels and joined twice.
C13_DistinctParticipants == \A g \in Sessions : games[g].player1 # games[g].player2

\* ----------------------------------------------------------------- C14
\* C14: when a move is accepted, or a game starts or ends, while exactly one
\* of the two participants has no registered channel, the message still goes
\* to the participant that is registered, whichever of the two it is, and
\* the applied board, turn and move counts are kept.
Registered(u) == connections[u] \in Channels /\ Alive(connections[u])

Unregistered(u) == connections[u] \notin Channels

\* The mover has no registered channel: the opponent is still sent GAME_MOVE.
C14_MoverAbsent ==
    \A g \in GameIds :
        (/\ last'.op = "play_move"
         /\ last'.arg[1] = g
         /\ g \in Sessions
         /\ TwoPlayers(games[g])
         /\ games[g].state.turn = handler[last'.ch].user
         /\ Board(g)[last'.arg[2]][last'.arg[3]] = None
         /\ Unregistered(handler[last'.ch].user)
         /\ Registered(Partner(games[g], handler[last'.ch].user))) =>
            /\ games'[g].state.board[last'.arg[2]][last'.arg[3]] = handler[last'.ch].user
            /\ handler'[last'.ch].pc = "move_send1"

\* The second recipient has no registered channel: the first one has been
\* sent the message and the session is left as it is.
C14_OtherAbsent ==
    \A c \in Channels :
        (/\ last'.op \in {"start_send2", "move_send2", "end_send2"}
         /\ last'.ch = c
         /\ handler[c].cur # handler[c].oth
         /\ Unregistered(handler[c].oth)
         /\ Registered(handler[c].cur)) =>
            /\ \E i \in 1..Len(handler[c].sent) : handler[c].sent[i].to = handler[c].cur
            /\ games' = games

\* Both registered: the second send reaches the second recipient.
C14_BothPresent ==
    \A c \in Channels :
        (/\ last'.op \in {"start_send2", "move_send2", "end_send2"}
         /\ last'.ch = c
         /\ Registered(handler[c].oth)) =>
            /\ handler'[c].pc = last'.op
            /\ handler'[c].sent[Len(handler'[c].sent)].to = handler[c].oth

C14_RegisteredStillReceives == [][C14_MoverAbsent /\ C14_OtherAbsent /\ C14_BothPresent]_vars

\* ----------------------------------------------------------------- C15
\* C15: a rejected GAME_MOVE (unknown game id, out of turn, occupied cell)
\* is a no-op and not an exception: play_move returns, the sender's handler
\* stays in its receive loop and stays registered, so that a later valid
\* move on the same connection is accepted.
C15_RejectedReturns ==
    [][RejectedCall =>
          /\ handler'[last'.ch].pc = "recv"
          /\ handler'[last'.ch] = handler[last'.ch]
          /\ connections' = connections]_vars

\* ----------------------------------------------------------------- C16
\* C16: in every session each participant's move count changes only when a
\* move by that participant is accepted, and then by exactly one; a rejected
\* move and an accepted move by the other participant leave it unchanged,
\* so each count is the number of that participant's accepted moves.
MoveCount(game, slot) ==
    IF slot = 1 THEN game.state.player1_move_count ELSE game.state.player2_move_count

SlotUser(game, slot) == IF slot = 1 THEN game.player1 ELSE game.player2

C16_Step ==
    \A g \in Sessions \cap DOMAIN games' : \A slot \in {1, 2} :
        LET mine == AcceptedStep(g) /\ handler[last'.ch].user = SlotUser(games[g], slot)
        IN  /\ mine => MoveCount(games'[g], slot) = MoveCount(games[g], slot) + 1
            /\ ~mine => MoveCount(games'[g], slot) = MoveCount(games[g], slot)

C16_New ==
    \A g \in DOMAIN games' \ Sessions : \A slot \in {1, 2} : MoveCount(games'[g], slot) = 0

C16_OwnMoveCount == [][C16_Step /\ C16_New]_vars

\* ----------------------------------------------------------------- C17
\* C17: when a session completes, its game row gets status completed,
\* winner_id = the mover and loser_id = the other participant on WIN (both
\* null on DRAW), is_draw true exactly when winner_id is null, the move
\* counts of the in-memory session at that moment, and as final_state the
\* serialized in-memory board of that moment.
Completes(g) ==
    /\ g \in DOMAIN dbGames
    /\ dbGames[g].status = "in_progress"
    /\ dbGames'[g].status = "completed"

\* The board a JSON text of nine cells stands for.
Decoded(text) ==
    [r \in Idx |-> [k \in Idx |->
        IF text[r][k] = "null" THEN None
        ELSE CHOOSE u \in Users : ToString(u) = text[r][k]]]

C17_Record ==
    \A g \in GameIds : Completes(g) =>
        LET c == last'.ch
            M == handler[c].cur
            O == Partner(games[g], M)
            row == dbGames'[g]
        IN  /\ last'.op = "end_persist"
            /\ handler[c].gid = g
            /\ g \in Sessions
            /\ handler[c].res \in {WIN, DRAW}
            /\ handler[c].res = WIN => HasLine(Board(g), M)
            /\ handler[c].res = DRAW => (Full(Board(g)) /\ ~HasLine(Board(g), M))
            /\ handler[c].res = WIN => (row.winner_id = M /\ row.loser_id = O)
            /\ handler[c].res = DRAW => (row.winner_id = None /\ row.loser_id = None)
            /\ row.is_draw = (row.winner_id = None)
            /\ row.player1_move_count = games[g].state.player1_move_count
            /\ row.player2_move_count = games[g].state.player2_move_count
            /\ Decoded(row.final_state) = Board(g)
            /\ row.player1_id = dbGames[g].player1_id
            /\ row.player2_id = dbGames[g].player2_id

C17_Kept ==
    \A g \in DOMAIN dbGames :
        dbGames[g].status = "completed" => (g \in DOMAIN dbGames' /\ dbGames'[g] = dbGames[g])

C17_CompletedRecord == [][C17_Record /\ C17_Kept]_vars

\* A session of two identities has just been completed by a winning move.
C17_Witness ==
    /\ last.op = "end_persist"
    /\ \E g \in DOMAIN dbGames :
          /\ dbGames[g].status = "completed"
          /\ dbGames[g].winner_id # None
          /\ dbGames[g].winner_id # dbGames[g].loser_id
          /\ ~dbGames[g].is_draw
          /\ dbGames[g].player1_move_count + dbGames[g].player2_move_count >= 5

\* ----------------------------------------------------------------- C18
\* C18: a session leaves memory only after its terminal persistence has
\* succeeded: a session id that was created and is no longer in memory has a
\* completed game row, and a session whose counter update or record update
\* did not finish is still in memory.
C18_RemovedIsCompleted ==
    \A g \in DOMAIN dbGames : g \notin Sessions => dbGames[g].status = "completed"

C18_RemovedByPersist ==
    \A g \in Sessions : g \notin DOMAIN games' =>
        /\ last'.op = "end_persist"
        /\ handler[last'.ch].gid = g
        /\ dbGames[g].status = "in_progress"
        /\ dbGames'[g].status = "completed"
        /\ dbUsers' # dbUsers

C18_UnfinishedStays ==
    \A c \in Channels :
        (/\ last'.op = "end_persist"
         /\ last'.ch = c
         /\ handler[c].gid \in Sessions
         /\ (dbUsers' = dbUsers \/ dbGames'[handler[c].gid].status # "completed")) =>
            handler[c].gid \in DOMAIN games'

C18_RemovedAfterPersistence ==
    [][C18_RemovedIsCompleted' /\ C18_RemovedByPersist /\ C18_UnfinishedStays]_vars

\* A drawn session has been completed and has left memory.
C18_Witness ==
    /\ last.op = "end_persist"
    /\ handler[last.ch].pc = "recv"
    /\ \E g \in DOMAIN dbGames :
          /\ g \notin Sessions
          /\ dbGames[g].status = "completed"
          /\ dbGames[g].is_draw
          /\ dbGames[g].player1_id # dbGames[g].player2_id

\* ----------------------------------------------------------------- C19
\* C19: for a terminal move GAME_MOVE is sent to both participants, then
\* GAME_END to both, then the account counters are incremented, then the
\* game row is updated, then the session is removed from memory; GAME_END is
\* sent before any account counter changes.
IsEnd(m) == m.msg.type = "GAME_END"

C19_SendOrder ==
    \A c \in Channels :
        /\ handler'[c].pc = "move_send2" /\ handler[c].pc # "move_send2"
              => (handler[c].pc = "move_send1" /\ last'.op = "move_send2")
        /\ handler'[c].pc = "end_send1" /\ handler[c].pc # "end_send1"
              => (handler[c].pc = "move_send2" /\ last'.op = "handle_game_end")
        /\ handler'[c].pc = "end_send2" /\ handler[c].pc # "end_send2"
              => (handler[c].pc = "end_send1" /\ last'.op = "end_send2")
        /\ \A i, j \in 1..Len(handler'[c].sent) :
              (i < j /\ IsEnd(handler'[c].sent[i])) => IsEnd(handler'[c].sent[j])
        /\ (handler'[c].pc = "end_send2" /\ Len(handler'[c].sent) = 4) =>
              LET t == handler'[c].sent
              IN  /\ ~IsEnd(t[1]) /\ ~IsEnd(t[2]) /\ IsEnd(t[3]) /\ IsEnd(t[4])
                  /\ t[1].to = handler'[c].cur /\ t[2].to = handler'[c].oth
                  /\ t[3].to = handler'[c].cur /\ t[4].to = handler'[c].oth

C19_PersistOrder ==
    /\ dbUsers' # dbUsers =>
          /\ last'.op = "end_persist"
          /\ handler[last'.ch].pc = "end_send2"
    /\ \A g \in GameIds : Completes(g) => dbUsers' # dbUsers
    /\ \A g \in Sessions : g \notin DOMAIN games' => Completes(g)

C19_TerminalOrder == [][C19_SendOrder /\ C19_PersistOrder]_vars

\* All four messages of a winning move have been sent to two registered
\* participants; no counter has changed yet.
C19_Witness ==
    \E c \in Channels :
        /\ last.op = "end_send2"
        /\ last.ch = c
        /\ handler[c].pc = "end_send2"
        /\ Len(handler[c].sent) = 4
        /\ handler[c].cur # handler[c].oth
        /\ handler[c].res = WIN
        /\ StatsUpTo(NumUsers) = 0

\* ----------------------------------------------------------------- C20
\* C20: the counter update and the record update of terminal handling are
\* two separate commits, counters first: when the second commit fails the
\* counters stay incremented while the game row stays in progress, the
\* session stays in memory and the handler ends without a retry.
C20_Between ==
    \A c \in Channels :
        (/\ last'.op = "end_persist"
         /\ last'.ch = c
         /\ last'.arg = <<"commit2_raises">>) =>
            LET M == handler[c].cur
                O == handler[c].oth
            IN  /\ dbUsers' # dbUsers
                /\ \A u \in Users \ {M, O} : dbUsers'[u] = dbUsers[u]
                /\ handler[c].res = WIN /\ M # O =>
                      /\ dbUsers'[M].wins = dbUsers[M].wins + 1
                      /\ dbUsers'[O].losses = dbUsers[O].losses + 1
                /\ handler[c].res = DRAW /\ M # O =>
                      /\ dbUsers'[M].draws = dbUsers[M].draws + 1
                      /\ dbUsers'[O].draws = dbUsers[O].draws + 1
                /\ dbGames' = dbGames
                /\ games' = games
                /\ handler'[c].pc = "crashed"

C20_FirstFails ==
    \A c \in Channels :
        (/\ last'.op = "end_persist"
         /\ last'.ch = c
         /\ last'.arg = <<"commit1_raises">>) =>
            /\ UNCHANGED <<dbUsers, dbGames, games>>
            /\ handler'[c].pc = "crashed"

C20_NoRetry ==
    \A c \in Channels : handler[c].pc = "crashed" => handler'[c] = handler[c]

C20_TwoCommits == [][C20_Between /\ C20_FirstFails /\ C20_NoRetry]_vars

\* The second commit of a won game has failed: the winner's counter is
\* written, the row is in progress and the session is still in memory.
C20_Witness ==
    /\ last.op = "end_persist"
    /\ last.arg = <<"commit2_raises">>
    /\ handler[last.ch].pc = "crashed"
    /\ \E g \in Sessions :
          /\ dbGames[g].status = "in_progress"
          /\ TwoPlayers(games[g])
          /\ HasLine(Board(g), handler[last.ch].user)
          /\ dbUsers[handler[last.ch].user].wins = 1
          /\ dbUsers[Partner(games[g], handler[last.ch].user)].losses = 1

\* ----------------------------------------------------------------- C21
\* C21: the cell, the turn and the mover's move count of an accepted move
\* change in one handler segment, the one that ends at play_move's first
\* send: a session changes only by a step that sets one empty cell to the
\* mover, passes the turn to the mover's partner and adds one to the mover's
\* count, and in every state, whichever handlers are suspended, the cells a
\* participant holds are as many as its move count and the turn is the one
\* the two counts give.
C21_Unit ==
    \A g \in Sessions \cap DOMAIN games' : games'[g] # games[g] =>
        LET mover == handler[last'.ch].user
            old == games[g]
            new == games'[g]
        IN  /\ last'.op = "play_move" /\ last'.arg[1] = g
            /\ new.player1 = old.player1 /\ new.player2 = old.player2
            /\ \E r \in Idx, c \in Idx :
                  /\ old.state.board[r][c] = None
                  /\ new.state.board = [old.state.board EXCEPT ![r][c] = mover]
            /\ new.state.turn = Partner(old, mover)
            /\ IF mover = old.player1
               THEN /\ new.state.player1_move_count = old.state.player1_move_count + 1
                    /\ new.state.player2_move_count = old.state.player2_move_count
               ELSE /\ new.state.player2_move_count = old.state.player2_move_count + 1
                    /\ new.state.player1_move_count = old.state.player1_move_count

C21_Whole ==
    \A g \in Sessions :
        LET st == games[g].state
        IN  /\ CountOf(st.board, games[g].player1) +
                  (IF TwoPlayers(games[g]) THEN CountOf(st.board, games[g].player2) ELSE 0)
               = st.player1_move_count + st.player2_move_count
            /\ TwoPlayers(games[g]) =>
                  /\ CountOf(st.board, games[g].player1) = st.player1_move_count
                  /\ CountOf(st.board, games[g].player2) = st.player2_move_count
                  /\ st.turn = IF st.player1_move_count = st.player2_move_count
                               THEN games[g].player1 ELSE games[g].player2
                  /\ st.player1_move_count - st.player2_move_count \in {0, 1}

C21_MoveIsOneUnit == []C21_Whole /\ [][C21_Unit]_vars

\* Two handlers of one session are suspended in the sends of their accepted
\* moves at once: the second ran play_move on the session the first left.
C21_Witness ==
    \E c1 \in Channels, c2 \in Channels :
        /\ c1 # c2
        /\ handler[c1].pc = "move_send1" /\ handler[c2].pc = "move_send1"
        /\ handler[c1].gid = handler[c2].gid
        /\ handler[c1].gid \in Sessions
        /\ TwoPlayers(games[handler[c1].gid])

\* ----------------------------------------------------------------- C22
\* C22: in a session of two different identities whose participants are both
\* registered on the channel on which they received the session's GAME_START,
\* whenever no handler is between the two GAME_MOVE sends of a move of the
\* session, the board each participant's client has built from the GAME_MOVE
\* messages it received is the server's board, and the turn of the last
\* message it received is the server's turn.
C22_BothStay(g) ==
    \A u \in {games[g].player1, games[g].player2} :
        /\ connections[u] # None
        /\ handler[connections[u]].user = u
        /\ Alive(connections[u])
        /\ client[connections[u]].current_game_id = g

C22_BroadcastsDone(g) ==
    \A c \in Channels : ~(handler[c].gid = g /\ handler[c].pc = "move_send1")

C22_ClientsFollowServer ==
    \A g \in Sessions :
        (TwoPlayers(games[g]) /\ C22_BothStay(g) /\ C22_BroadcastsDone(g)) =>
            \A u \in {games[g].player1, games[g].player2} :
                /\ client[connections[u]].board = Board(g)
                /\ client[connections[u]].turn = games[g].state.turn

\* ----------------------------------------------------------------- C23
\* C23: a handler that ends because its channel was closed removes at most
\* the registry entry of its identity: every session, every game row, every
\* account counter, the queue and the registry entries of other identities
\* are as before, so the session is neither ended nor removed; and in every
\* state every game row is in progress or completed, never cancelled.
C23_OnlyRegistry ==
    last'.op = "disconnect" =>
        /\ UNCHANGED <<games, dbGames, dbUsers, queue>>
        /\ \A u \in Users \ {handler[last'.ch].user} : connections'[u] = connections[u]
        /\ connections'[handler[last'.ch].user] = None

C23_NeverCancelled ==
    \A g \in DOMAIN dbGames : dbGames[g].status \in {"in_progress", "completed"}

C23_DisconnectLeavesSession == []C23_NeverCancelled /\ [][C23_OnlyRegistry]_vars

\* A participant of a session with a move on its board has just closed its
\* channel: the session is in memory and its row in progress.
C23_Witness ==
    /\ last.op = "disconnect"
    /\ handler[last.ch].pc = "closed"
    /\ \E g \in Sessions :
          /\ TwoPlayers(games[g])
          /\ handler[last.ch].user \in {games[g].player1, games[g].player2}
          /\ Board(g) # EmptyBoard
          /\ dbGames[g].status = "in_progress"

\* ----------------------------------------------------------------- C24
\* C24: the connect call of a handshake does not end the handler; after it
\* the registry maps the identity to the channel of the handshake, whatever
\* it mapped the identity to before, and the entries of all other
\* identities are as before.  In every state an identity has at most one
\* channel in the registry, also when it has several channels open.
C24_Connect ==
    last'.op = "handshake" =>
        LET u == last'.arg[1]
        IN  /\ connections'[u] = last'.ch
            /\ \A v \in Users \ {u} : connections'[v] = connections[v]
            /\ handler'[last'.ch].pc \notin {"init", "crashed", "closed"}
            /\ handler'[last'.ch].user = u

C24_OneChannel ==
    \A u \in Users : Cardinality({c \in Channels : connections[u] = c}) <= 1

C24_ConnectOverwrites == []C24_OneChannel /\ [][C24_Connect]_vars

\* An identity whose first channel is still open has connected on a second
\* channel, which replaced the first in the registry.
C24_Witness ==
    /\ last.op = "handshake"
    /\ \E c \in Channels \ {last.ch} :
          /\ handler[c].user = last.arg[1]
          /\ Alive(c)
    /\ connections[last.arg[1]] = last.ch
    /\ \E v \in Users \ {last.arg[1]} : connections[v] # None

\* ----------------------------------------------------------------- C25
\* C25: disconnect removes the registry entry of an identity that has one.
\* disconnect and send_message for an identity without an entry fail (the
\* KeyError of the registry lookup ends the calling handler), hand nothing to
\* any channel and leave the registry as it was.  send_message for an
\* identity with an entry whose channel is open hands exactly one message to
\* that channel and to no other.
C25_SendOps == {"start_send2", "move_send2", "end_send2"}

\* The step just taken called send_message for identity u from handler c.
C25_SendsTo(c, u) ==
    /\ last'.ch = c
    /\ \/ last'.op \in C25_SendOps /\ u = handler[c].oth
       \/ /\ last'.op = "play_move"
          /\ last'.arg[1] \in Sessions
          /\ games'[last'.arg[1]] # games[last'.arg[1]]
          /\ u = handler[c].user
       \/ /\ last'.op = "handle_game_end"
          /\ handler[c].gid \in Sessions
          /\ Outcome(Board(handler[c].gid), handler[c].cur) # CONTINUE
          /\ u = handler[c].cur

C25_Send ==
    \A c \in Channels, u \in Users : C25_SendsTo(c, u) =>
        /\ connections' = connections
        /\ connections[u] = None =>
              /\ handler'[c].pc = "crashed"
              /\ client' = client
        /\ (connections[u] # None /\ Alive(connections[u])) =>
              /\ handler'[c].pc # "crashed"
              /\ Len(handler'[c].sent) = Len(handler[c].sent) + 1
              /\ handler'[c].sent[Len(handler'[c].sent)].to = u
              /\ handler'[c].sent[Len(handler'[c].sent)].ch = connections[u]
              /\ client'[connections[u]] =
                    handle_message(client[connections[u]],
                                   handler'[c].sent[Len(handler'[c].sent)].msg)
              /\ \A d \in Channels \ {connections[u]} : client'[d] = client[d]

C25_Disconnect ==
    last'.op = "disconnect" =>
        LET c == last'.ch
            u == handler[c].user
        IN  /\ client' = client
            /\ connections[u] # None =>
                  /\ connections'[u] = None
                  /\ handler'[c].pc = "closed"
            /\ connections[u] = None =>
                  /\ connections' = connections
                  /\ handler'[c].pc = "crashed"

C25_RegistryErrors == [][C25_Send /\ C25_Disconnect]_vars

\* The second GAME_MOVE of a move was for a participant without a registry
\* entry: the send has just failed.
C25_Witness ==
    /\ last.op = "move_send2"
    /\ handler[last.ch].pc = "crashed"
    /\ \E g \in Sessions :
          /\ TwoPlayers(games[g])
          /\ handler[last.ch].user \in {games[g].player1, games[g].player2}
          /\ connections[Partner(games[g], handler[last.ch].user)] = None
    /\ \E c \in Channels : handler[c].pc = "closed"

\* ----------------------------------------------------------------- C26
\* C26: a handshake whose token is missing, was never issued, has expired or
\* is bound to an identity without an account ends with the channel closed
\* by the endpoint with a close code, and registers and queues nothing.
\* The step just taken accepted a websocket; the token it presented.
HandshakeStep == nextChan' = nextChan + 1 /\ last'.op \in {"handshake", "handshake_failed"}

PresentedToken == IF last'.op = "handshake" THEN last'.arg[2] ELSE last'.arg[1]

Live(token) == token \in DOMAIN tokens /\ now < tokens[token].expire_at

BoundTo(token) == token_loads_user_id(tokens[token].data)

C26_Bad(token) ==
    \/ token = None
    \/ ~Live(token)
    \/ BoundTo(token) \notin DOMAIN dbUsers

C26_BadHandshakeClosed ==
    [][(HandshakeStep /\ C26_Bad(PresentedToken)) =>
          /\ last'.op = "handshake_failed"
          /\ handler'[last'.ch].pc = "closed"
          /\ last'.arg[3] # None
          /\ connections' = connections
          /\ queue' = queue]_vars

\* ----------------------------------------------------------------- C27
\* C27: a token is stored with an expiry 300 seconds after its issue.
\* Redeeming a token that was never issued or whose expiry has passed fails
\* with "Invalid token"; redeeming a live token bound to an identity without
\* an account fails with "User not found"; a failed redeem leaves the token
\* store, the registry, the queue, the sessions, the tables and the clients
\* as they were.
C27_Issue ==
    last'.op = "issue" =>
        /\ DOMAIN tokens' = DOMAIN tokens \cup {last'.arg[2]}
        /\ last'.arg[2] \notin DOMAIN tokens
        /\ tokens'[last'.arg[2]].expire_at = now + 300

C27_Frame ==
    UNCHANGED <<tokens, now, queue, connections, games, dbGames, dbUsers, nextGame, client>>

C27_Redeem ==
    (HandshakeStep /\ PresentedToken # None) =>
        LET token == PresentedToken
        IN  IF ~Live(token)
            THEN last'.op = "handshake_failed" /\ last'.arg[2] = "Invalid token" /\ C27_Frame
            ELSE IF BoundTo(token) \notin DOMAIN dbUsers
            THEN last'.op = "handshake_failed" /\ last'.arg[2] = "User not found" /\ C27_Frame
            ELSE last'.op = "handshake"

C27_RedeemFailures == [][C27_Issue /\ C27_Redeem]_vars

\* A token that was issued to an account is presented after its expiry: the
\* redeem has just failed.
C27_Witness ==
    /\ last.op = "handshake_failed"
    /\ last.arg[1] \in DOMAIN tokens
    /\ BoundTo(last.arg[1]) \in DOMAIN dbUsers
    /\ tokens[last.arg[1]].expire_at <= now
    /\ last.arg[2] = "Invalid token"
    /\ handler[last.ch].pc = "crashed"

\* ----------------------------------------------------------------- C28
\* C28: a token issued for identity I is stored bound to I and the binding
\* never changes; every redeem of it while it is live and I has an account
\* succeeds as I and leaves the token store as it was, so the token redeems
\* again.
C28_Issue ==
    last'.op = "issue" =>
        token_loads_user_id(tokens'[last'.arg[2]].data) = last'.arg[1]

C28_Kept == \A t \in DOMAIN tokens : t \in DOMAIN tokens' /\ tokens'[t] = tokens[t]

C28_Redeem ==
    (HandshakeStep /\ PresentedToken # None /\ Live(PresentedToken)
       /\ BoundTo(PresentedToken) \in DOMAIN dbUsers) =>
        /\ last'.op = "handshake"
        /\ last'.arg[1] = BoundTo(PresentedToken)
        /\ handler'[last'.ch].user = BoundTo(PresentedToken)
        /\ connections'[BoundTo(PresentedToken)] = last'.ch
        /\ tokens' = tokens

C28_TokenReusable == [][C28_Issue /\ C28_Kept /\ C28_Redeem]_vars

\* The only token ever issued for an identity has just been redeemed for a
\* second channel of that identity, at a later time than it was issued.
C28_Witness ==
    /\ last.op = "handshake"
    /\ last.arg[2] \in DOMAIN tokens
    /\ now > 0
    /\ \A t \in DOMAIN tokens : BoundTo(t) = last.arg[1] => t = last.arg[2]
    /\ \E c \in Channels \ {last.ch} : handler[c].user = last.arg[1]

\* ----------------------------------------------------------------- C29
\* C29: no step leaves a session of two different identities in memory with
\* a complete line or a full board while no handler is inside play_move for
\* it, whether or not the opponent is registered: a board that ends the game
\* is always followed by terminal handling up to the removal of the session.
\* (A step whose commit raised is not counted; a session already left so is
\* not counted again.)
C29_Inside(hd, g) ==
    \E c \in Channels :
        hd[c].gid = g /\ hd[c].pc \in {"move_send1", "move_send2", "end_send1", "end_send2"}

C29_Ended(board) == Full(board) \/ \E u \in Users : HasLine(board, u)

C29_EndedBoardIsHandled ==
    [][\A g \in DOMAIN games' :
          (/\ TwoPlayers(games'[g])
           /\ C29_Ended(games'[g].state.board)
           /\ ~C29_Inside(handler', g)
           /\ last'.op # "end_persist") =>
              (g \in Sessions /\ C29_Ended(Board(g)) /\ ~C29_Inside(handler, g))]_vars

\* ----------------------------------------------------------------- C30
\* C30: in a session of two different identities, both registered on open
\* channels, no move is accepted on a board that already has a complete
\* line or is full while a handler is still inside play_move for the
\* session; and a row completed with a winner stores a board on which the
\* winner has a line and the loser has none.
C30_BothOpen(g) ==
    \A u \in {games[g].player1, games[g].player2} :
        connections[u] # None /\ Alive(connections[u])

C30_NoMoveAfterEnd ==
    \A g \in GameIds :
        (AcceptedStep(g) /\ TwoPlayers(games[g]) /\ C30_BothOpen(g)
           /\ C29_Inside(handler, g)) => ~C29_Ended(Board(g))

C30_WinnerIsFirst ==
    \A g \in GameIds :
        (Completes(g) /\ dbGames'[g].winner_id # None
           /\ dbGames'[g].player1_id # dbGames'[g].player2_id) =>
            /\ HasLine(Decoded(dbGames'[g].final_state), dbGames'[g].winner_id)
            /\ ~HasLine(Decoded(dbGames'[g].final_state), dbGames'[g].loser_id)

C30_EndedSessionTakesNoMove == [][C30_NoMoveAfterEnd /\ C30_WinnerIsFirst]_vars

\* ----------------------------------------------------------------- C31
\* C31: while the channel an identity registered last is open, the registry
\* maps the identity to that channel, whatever happened to the channels it
\* registered before; and the close of that channel unregisters the identity
\* without an error.  Stated for states without a self-paired session.
\* The channels are numbered in the order in which they were opened.
C31_LatestChannel(u) ==
    LET cs == {c \in 1..nextChan : handler[c].user = u}
    IN  IF cs = {} THEN None ELSE CHOOSE c \in cs : \A d \in cs : d <= c

C31_NoSelfPair == \A g \in Sessions : TwoPlayers(games[g])

C31_LatestRegistered ==
    C31_NoSelfPair =>
        \A u \in Users :
            (C31_LatestChannel(u) # None /\ Alive(C31_LatestChannel(u))) =>
                connections[u] = C31_LatestChannel(u)

C31_CloseOk ==
    (last'.op = "disconnect" /\ C31_NoSelfPair
       /\ last'.ch = C31_LatestChannel(handler[last'.ch].user)) =>
        handler'[last'.ch].pc = "closed"

C31_LatestChannelStaysRegistered == []C31_LatestRegistered /\ [][C31_CloseOk]_vars

\* ----------------------------------------------------------------- C32
\* C32: in every state each identity of the queue has a registry entry, and the second GAME_START of every pairing is handed to
\* the channel of the identity that waited.
C32_QueuedAreRegistered ==
    \A i \in 1..Len(queue) : connections[queue[i]] # None

C32_StartReachesWaiting ==
    last'.op = "start_send2" =>
        /\ handler'[last'.ch].pc = "start_send2"
        /\ Len(handler'[last'.ch].sent) = 2
        /\ handler'[last'.ch].sent[2].to = handler[last'.ch].oth

C32_QueueHoldsConnected == []C32_QueuedAreRegistered /\ [][C32_StartReachesWaiting]_vars

\* ----------------------------------------------------------------- C33
\* C33: in every state no identity is a participant of two sessions that
\* are in memory, and no identity of the queue is a participant of a session
\* that is in memory.  Sessions of two different identities are counted.
C33_Plays(u, g) == TwoPlayers(games[g]) /\ u \in {games[g].player1, games[g].player2}

C33_OneSession ==
    \A u \in Users : \A g1 \in Sessions, g2 \in Sessions :
        (C33_Plays(u, g1) /\ C33_Plays(u, g2)) => g1 = g2

C33_QueuedNotPlaying ==
    \A i \in 1..Len(queue) : \A g \in Sessions : ~C33_Plays(queue[i], g)

C33_OneRoleAtATime == C33_OneSession /\ C33_QueuedNotPlaying

\* ----------------------------------------------------------------- C34
\* C34: a GAME_MOVE that addresses a session in memory and comes from the
\* channel of an identity that is neither its player1 nor its player2
\* changes no session, hands no message to any channel and leaves the
\* handler in its receive loop, whatever the state of the session.
C34_Outsider(hd, c, g) ==
    g \in Sessions /\ hd[c].user \notin {games[g].player1, games[g].player2}

C34_OutsiderRejected ==
    [][(last'.op = "play_move" /\ C34_Outsider(handler, last'.ch, last'.arg[1])) =>
          /\ games' = games
          /\ client' = client
          /\ handler' = handler
          /\ UNCHANGED <<dbGames, dbUsers, queue, connections>>]_vars

\* An identity that waits in the queue has just submitted an empty cell of
\* a session of two other identities on which a move has been made.
C34_Witness ==
    /\ last.op = "play_move"
    /\ C34_Outsider(handler, last.ch, last.arg[1])
    /\ handler[last.ch].pc = "recv"
    /\ TwoPlayers(games[last.arg[1]])
    /\ Board(last.arg[1]) # EmptyBoard
    /\ Board(last.arg[1])[last.arg[2]][last.arg[3]] = None

\* ----------------------------------------------------------------- C35
\* C35: a GAME_MOVE for a session of two different identities whose row or
\* column is not 0, 1 or 2 changes no session and hands no message to any
\* channel.
C35_OutOfRange == last'.arg[2] \notin 0..2 \/ last'.arg[3] \notin 0..2

C35_OutOfRangeRejected ==
    [][(/\ last'.op = "play_move"
        /\ last'.arg[1] \in Sessions
        /\ TwoPlayers(games[last'.arg[1]])
        /\ C35_OutOfRange) =>
          /\ games' = games
          /\ client' = client
          /\ handler'[last'.ch].sent = <<>>]_vars

\* ----------------------------------------------------------------- C36
\* C36: in every state every session in memory has player1's move count
\* equal to player2's or one above it, the turn with player1 exactly when
\* the counts are equal, as many occupied cells as the two counts together,
\* and at most five moves of player1 and four of player2.
C36_Occupied(board) == Cardinality({rc \in Idx \X Idx : board[rc[1]][rc[2]] # None})

C36_CountsAndTurn ==
    \A g \in Sessions :
        LET st == games[g].state
        IN  /\ st.player1_move_count - st.player2_move_count \in {0, 1}
            /\ (st.turn = games[g].player1) <=> (st.player1_move_count = st.player2_move_count)
            /\ st.player1_move_count + st.player2_move_count = C36_Occupied(st.board)
            /\ st.player1_move_count <= 5
            /\ st.player2_move_count <= 4

\* ----------------------------------------------------------------- C37
\* C37: the queue holds at most one identity in every state; it grows only
\* by a handshake that found it empty, and a handshake that finds an
\* identity waiting takes that identity out and appends nothing.
C37_AtMostOne == Len(queue) <= 1

C37_Join ==
    /\ Len(queue') > Len(queue) => (last'.op = "handshake" /\ queue = <<>>)
    /\ (last'.op = "handshake" /\ nextChan' # nextChan /\ queue # <<>>) => queue' = Tail(queue)

C37_QueueAtMostOne == []C37_AtMostOne /\ [][C37_Join]_vars

\* A third connection found the queue empty after the first two were paired
\* and waits alone.
C37_Witness ==
    /\ last.op = "handshake"
    /\ last.ch = 3
    /\ queue = <<last.arg[1]>>
    /\ Sessions # {}

\* ----------------------------------------------------------------- C38
\* C38: the account counters change only in terminal handling, and a run of
\* terminal handling whose commits both succeed, for a game of two different
\* identities, completes the record of the game and adds one win and one
\* loss in all when the record has a winner, two draws in all when it is a
\* draw, and exactly one to the counters of each participant; so the wins and
\* the losses both add up to the records completed with a winner and the
\* draws to twice the records completed as draws.
RECURSIVE C38_Sum(_, _, _)
C38_Sum(db, field, n) == IF n = 0 THEN 0 ELSE db[n][field] + C38_Sum(db, field, n - 1)

C38_Added(field) == C38_Sum(dbUsers', field, NumUsers) - C38_Sum(dbUsers, field, NumUsers)

C38_Total(db, u) == db[u].wins + db[u].losses + db[u].draws

C38_OnlyTerminal == dbUsers' # dbUsers => last'.op = "end_persist"

C38_Run ==
    \A c \in Channels :
        (/\ last'.op = "end_persist"
         /\ last'.ch = c
         /\ last'.arg = <<"ok">>
         /\ dbGames[handler[c].gid].player1_id # dbGames[handler[c].gid].player2_id) =>
            LET g == handler[c].gid
            IN  /\ Completes(g)
                /\ dbGames'[g].winner_id # None =>
                      (C38_Added("wins") = 1 /\ C38_Added("losses") = 1 /\ C38_Added("draws") = 0)
                /\ dbGames'[g].is_draw =>
                      (C38_Added("wins") = 0 /\ C38_Added("losses") = 0 /\ C38_Added("draws") = 2)
                /\ dbGames'[g].is_draw <=> dbGames'[g].winner_id = None
                /\ \A u \in Users :
                      C38_Total(dbUsers', u) - C38_Total(dbUsers, u) =
                         IF u \in {dbGames[g].player1_id, dbGames[g].player2_id} THEN 1 ELSE 0

C38_CountersMatchRecords == [][C38_OnlyTerminal /\ C38_Run]_vars

\* ----------------------------------------------------------------- C39
\* C39: under fair scheduling, a session of two different identities whose
\* participants keep their registry entries for as long as it is in memory
\* is followed by a state in which its record is completed, it is out of
\* memory and the clients of both participants have been told that it
\* ended; and no session has more than nine moves.
C39_Unregistered(g) ==
    /\ g \in Sessions
    /\ \E u \in {games[g].player1, games[g].player2} : connections[u] = None

C39_Completed(g) ==
    /\ g \notin Sessions
    /\ g \in DOMAIN dbGames
    /\ dbGames[g].status = "completed"
    /\ \A u \in {dbGames[g].player1_id, dbGames[g].player2_id} :
           connections[u] # None => client[connections[u]].current_game_id # g

C39_Started(g) == g \in Sessions /\ TwoPlayers(games[g])

C39_NineMoves ==
    \A g \in Sessions :
        games[g].state.player1_move_count + games[g].state.player2_move_count <= 9

C39_CommitRaised == last.op = "end_persist" /\ last.arg[1] # "ok"

====
